---------------------------- MODULE Spec2Model ----------------------------
(***************************************************************************)
(* hostel-chow-hub: the weekly menu resolver of src/pages/FoodMenu.tsx     *)
(* (menusByDay) and the session/profile binder of                          *)
(* src/contexts/AuthContext.tsx (AuthProvider).                            *)
(*                                                                         *)
(* Calendar dates ("YYYY-MM-DD") are day numbers counted from 1970-01-01;  *)
(* new Date("YYYY-MM-DD") is the instant of that day's UTC midnight, so    *)
(* comparing two such Date objects compares the day numbers.               *)
(***************************************************************************)
EXTENDS Integers, Sequences, FiniteSets, TLC

VARIABLES
    \* ---- FoodMenu.tsx ----
    queryStatus,     \* the remote read of useQuery: "pending", or how it ended
    scheduledMenus,  \* useQuery data (default []): the records handed to menusByDay
    now,             \* the clock: the UTC calendar date of the present instant
    today,           \* menusByDay's const today = getTodayDateString()
    tzBehindUTC,     \* the browser's zone is west of UTC (local time < UTC)
    mpc,             \* position inside menusByDay: "init" | "apply" | "done"
    grouped,         \* menusByDay's accumulator: day-name -> meal key -> text
    relevantMenus,   \* the filtered and sorted records
    cursor,          \* forEach index: records 1..cursor of relevantMenus are applied
    prevGrouped,     \* grouped before the latest forEach step
    \* ---- AuthContext.tsx ----
    user,            \* useState<User | null>
    isLoading,       \* useState<boolean>
    dark,            \* document.documentElement.classList contains 'dark'
    session,         \* the backend client's current session user, or NULL
    registered,      \* the e-mails that have an account at the backend
    profiles,        \* the backend's profiles table: id -> row, or NULL
    tasks,           \* the awaits in flight, in the order they were started
    calls,           \* how many context operations have been invoked
    last             \* what the latest step reported to its caller and the user

authVars == <<user, isLoading, dark, session, registered, profiles, tasks, calls,
              last>>

menuVars == <<queryStatus, scheduledMenus, now, today, tzBehindUTC, mpc, grouped,
              relevantMenus, cursor, prevGrouped>>

-----------------------------------------------------------------------------
(* Bounds of the model *)

MaxMenus == 2        \* longest list of remote records
FirstToday == 1      \* the day number of the day the page is opened
                     \* (1970-01-02, a Friday)
MaxMidnights == 1    \* UTC midnights that pass while the page is open
MaxCalls == 2        \* invocations of login, register, logout, updateProfile,
                     \* toggleTheme in one run

(* 1970-01-01 (day number 0) is a Thursday: Date.prototype.getUTCDay() = 4 *)
EpochWeekday == 4

-----------------------------------------------------------------------------
(* FoodMenu.tsx *)

days == <<"sunday", "monday", "tuesday", "wednesday", "thursday", "friday",
          "saturday">>

DayNames == {days[i] : i \in 1..Len(days)}

MealSlots == {"breakfast", "lunch", "snacks", "dinner"}

fallbackWeeklyMenu ==
    [monday |->
        [breakfast |-> "Idli, Vada, Sambar, Coconut Chutney, Coffee/Tea",
         lunch |-> "Rice, Dal, Aloo Gobi, Chapati, Curd, Pickle",
         snacks |-> "Biscuits, Coffee/Tea",
         dinner |-> "Chapati, Paneer Butter Masala, Jeera Rice, Salad"],
     tuesday |->
        [breakfast |-> "Poha, Boiled Eggs, Bread, Jam, Coffee/Tea",
         lunch |-> "Rice, Rajma, Mixed Vegetable, Chapati, Raita",
         snacks |-> "Samosa, Coffee/Tea",
         dinner |-> "Chapati, Chicken Curry, Rice, Salad, Ice Cream"],
     wednesday |->
        [breakfast |-> "Dosa, Coconut Chutney, Upma, Coffee/Tea",
         lunch |-> "Rice, Dal Makhani, Bhindi Fry, Chapati, Curd",
         snacks |-> "Vada Pav, Coffee/Tea",
         dinner |-> "Chapati, Egg Curry, Veg Pulao, Raita"],
     thursday |->
        [breakfast |-> "Paratha, Curd, Fruits, Coffee/Tea",
         lunch |-> "Rice, Kadhi, Aloo Matar, Chapati, Pickle",
         snacks |-> "Kachori, Coffee/Tea",
         dinner |-> "Chapati, Dal Tadka, Veg Biryani, Salad"],
     friday |->
        [breakfast |-> "Bread Omelette, Cornflakes, Milk, Coffee/Tea",
         lunch |-> "Rice, Chole, Aloo Jeera, Chapati, Raita",
         snacks |-> "Pav Bhaji, Coffee/Tea",
         dinner |-> "Chapati, Mix Veg Curry, Fried Rice, Gulab Jamun"],
     saturday |->
        [breakfast |-> "Puri, Bhaji, Sprouts, Coffee/Tea",
         lunch |-> "Rice, Dal Fry, Gobi Matar, Chapati, Curd",
         snacks |-> "Bread Pakora, Coffee/Tea",
         dinner |-> "Chapati, Fish Curry, Jeera Rice, Salad"],
     sunday |->
        [breakfast |-> "Chole Bhature, Fruits, Coffee/Tea",
         lunch |-> "Rice, Sambar, Rasam, Chapati, Papad, Sweet",
         snacks |-> "French Fries, Coffee/Tea",
         dinner |-> "Chapati, Mutton/Paneer Curry, Pulao, Raita, Ice Cream"]]

(* The items payload of a ScheduledMenu: null, a flat array of strings, or *)
(* an object keyed by meal type.                                           *)
NoMap == [k \in {} |-> <<>>]
ItemsNull == [kind |-> "null", arr |-> <<>>, map |-> NoMap]
ItemsArray(a) == [kind |-> "array", arr |-> a, map |-> NoMap]
ItemsObject(m) == [kind |-> "object", arr |-> <<>>, map |-> m]

(* The payloads the model draws from: a flat list, a keyed object with a   *)
(* filled key, an empty key and absent keys, and a missing payload.        *)
ItemsChoices ==
    { ItemsArray(<<"Tea", "Toast">>),
      ItemsObject([lunch |-> <<"Rice", "Dal">>, breakfast |-> <<>>]),
      ItemsNull }

(* meal_type is a free string in the record type; "" stands for a missing  *)
(* (falsy) meal type, "brunch" for a tag that is no slot of the fallback.  *)
MealTypeChoices == {"breakfast", "lunch", "brunch", ""}

DateOffsets == {-1, 0, 1, 7}

ScheduledMenu(t) ==
    [date : {t + o : o \in DateOffsets},
     meal_type : MealTypeChoices,
     items : ItemsChoices]

SeqsUpTo(S, n) == UNION {[1..k -> S] : k \in 0..n}

(* .order('date'): the rows as the backend sends them, ascending by date;  *)
(* rows of one date keep the order the table has them in                   *)
RECURSIVE orderByDate(_)
orderByDate(rows) ==
    IF rows = <<>> THEN <<>>
    ELSE LET first == CHOOSE i \in 1..Len(rows) :
                         \A j \in 1..Len(rows) :
                            \/ rows[i].date < rows[j].date
                            \/ (rows[i].date = rows[j].date /\ i <= j)
         IN  <<rows[first]>>
             \o orderByDate(SubSeq(rows, 1, first - 1)
                            \o SubSeq(rows, first + 1, Len(rows)))

(* How the remote read can end: rows, an error value, a rejected promise *)
QueryOutcomes == {"data", "error", "throw"}

(* queryFn: [] on an error value, else the rows *)
queryFn_NoErrorCheck(outcome, rows) == rows

queryFn(outcome, rows) == IF outcome = "error" THEN <<>> ELSE rows

(* const { data: scheduledMenus = [] } = useQuery(...): a rejected queryFn *)
(* leaves data undefined, and the default [] stands in                     *)
dataOrDefault(outcome, rows) ==
    IF outcome = "throw" THEN <<>> ELSE queryFn(outcome, rows)

(* Date.prototype.getDay() of new Date("YYYY-MM-DD"): the weekday, in the  *)
(* browser's LOCAL zone, of the date's UTC midnight. West of UTC that      *)
(* instant still lies in the previous local day.                           *)
getDay(date) ==
    ((IF tzBehindUTC THEN date - 1 ELSE date) + EpochWeekday) % 7

dayNameOf(menu) == days[getDay(menu.date) + 1]

(* relevantMenus filter: menuDate >= todayDate *)
isRelevant_FromYesterday(menu, t) == menu.date >= t - 1

isRelevant_WithinWeek(menu, t) == menu.date >= t /\ menu.date < t + 7

isRelevant(menu, t) == menu.date >= t

filterRelevant(menus, t) == SelectSeq(menus, LAMBDA m : isRelevant(m, t))

(* relevantMenus.sort((a, b) => time(a.date) - time(b.date)): a stable     *)
(* sort, here by insertion from the left.                                  *)
comparesAfter_Descending(a, b) == b.date - a.date > 0

comparesAfter(a, b) == a.date - b.date > 0

RECURSIVE insertSorted(_, _)
insertSorted(sorted, m) ==
    IF sorted = <<>> THEN <<m>>
    ELSE IF comparesAfter(sorted[Len(sorted)], m)
         THEN Append(insertSorted(SubSeq(sorted, 1, Len(sorted) - 1), m),
                     sorted[Len(sorted)])
         ELSE Append(sorted, m)

RECURSIVE sortByDate(_)
sortByDate(menus) ==
    IF menus = <<>> THEN <<>>
    ELSE insertSorted(sortByDate(SubSeq(menus, 1, Len(menus) - 1)),
                      menus[Len(menus)])

(* Array.prototype.join(', ') *)
RECURSIVE join(_)
join(arr) ==
    IF arr = <<>> THEN ""
    ELSE IF Len(arr) = 1 THEN arr[1]
    ELSE arr[1] \o ", " \o join(Tail(arr))

(* itemsString: the flat array joined, else the entries under the record's *)
(* own meal_type key joined, else ''                                       *)
itemsString_LunchKey(menu) ==
    IF menu.items.kind = "array" THEN join(menu.items.arr)
    ELSE IF menu.items.kind = "object" /\ "lunch" \in DOMAIN menu.items.map
         THEN join(menu.items.map["lunch"])
         ELSE ""

itemsString(menu) ==
    IF menu.items.kind = "array" THEN join(menu.items.arr)
    ELSE IF menu.items.kind = "object"
            /\ menu.meal_type \in DOMAIN menu.items.map
         THEN join(menu.items.map[menu.meal_type])
         ELSE ""

(* if (menu.items && menu.meal_type) ... if (itemsString) *)
hasUsableItems_NoEmptyCheck(menu) ==
    /\ menu.items.kind # "null"
    /\ menu.meal_type # ""

hasUsableItems(menu) ==
    /\ menu.items.kind # "null"
    /\ menu.meal_type # ""
    /\ itemsString(menu) # ""

(* { ...grouped[dayName], [menu.meal_type]: itemsString } *)
withSlot(dayMenu, key, text) ==
    [k \in DOMAIN dayMenu \cup {key} |-> IF k = key THEN text ELSE dayMenu[k]]

(* one iteration of relevantMenus.forEach *)
applyMenu(g, menu) ==
    IF hasUsableItems(menu)
    THEN [g EXCEPT ![dayNameOf(menu)] =
              withSlot(g[dayNameOf(menu)], menu.meal_type, itemsString(menu))]
    ELSE g

(* grouped initialised with a copy of the fallback data, day by day *)
initialGrouped == [d \in DayNames |-> fallbackWeeklyMenu[d]]

(* The first render: the read is under way, data is undefined, and the    *)
(* memo is about to be computed on the default []                          *)
MenuInit ==
    /\ now = FirstToday
    /\ today = FirstToday
    /\ tzBehindUTC \in BOOLEAN
    /\ queryStatus = "pending"
    /\ scheduledMenus = <<>>
    /\ mpc = "init"
    /\ grouped = initialGrouped
    /\ prevGrouped = initialGrouped
    /\ relevantMenus = <<>>
    /\ cursor = 0

(* menusByDay up to the forEach: the fallback copy, then, for a non-empty  *)
(* list, the filter and the sort                                           *)
StartResolve ==
    /\ mpc = "init"
    /\ grouped' = initialGrouped
    /\ prevGrouped' = initialGrouped
    /\ relevantMenus' = IF Len(scheduledMenus) > 0
                        THEN sortByDate(filterRelevant(scheduledMenus, now))
                        ELSE <<>>
    /\ today' = IF Len(scheduledMenus) > 0 THEN now ELSE today
    /\ cursor' = 0
    /\ mpc' = "apply"
    /\ UNCHANGED <<queryStatus, scheduledMenus, now, tzBehindUTC>>
    /\ UNCHANGED authVars

(* one forEach iteration *)
ApplyNext ==
    /\ mpc = "apply"
    /\ cursor < Len(relevantMenus)
    /\ prevGrouped' = grouped
    /\ grouped' = applyMenu(grouped, relevantMenus[cursor + 1])
    /\ cursor' = cursor + 1
    /\ UNCHANGED <<queryStatus, scheduledMenus, now, today, tzBehindUTC, mpc,
                   relevantMenus>>
    /\ UNCHANGED authVars

(* return grouped *)
FinishResolve ==
    /\ mpc = "apply"
    /\ cursor = Len(relevantMenus)
    /\ mpc' = "done"
    /\ UNCHANGED <<queryStatus, scheduledMenus, now, today, tzBehindUTC, grouped,
                   relevantMenus, cursor, prevGrouped>>
    /\ UNCHANGED authVars

(* The remote read of useQuery ends, between two renders: the component    *)
(* gets the new data, and the memo, whose dependency changed, is due again *)
QueryReturn ==
    /\ queryStatus = "pending"
    /\ mpc = "done"
    /\ \E outcome \in QueryOutcomes :
          \E rows \in SeqsUpTo(ScheduledMenu(FirstToday), MaxMenus) :
             /\ queryStatus' = outcome
             /\ scheduledMenus' = dataOrDefault(outcome, orderByDate(rows))
    /\ mpc' = "init"
    /\ UNCHANGED <<now, today, tzBehindUTC, grouped, relevantMenus, cursor,
                   prevGrouped>>
    /\ UNCHANGED authVars

(* The clock passes a UTC midnight while the page is shown. Nothing of the *)
(* component depends on the clock, so nothing is rendered again.           *)
MidnightPasses ==
    /\ mpc = "done"
    /\ now < FirstToday + MaxMidnights
    /\ now' = now + 1
    /\ UNCHANGED <<queryStatus, scheduledMenus, today, tzBehindUTC, mpc, grouped,
                   relevantMenus, cursor, prevGrouped>>
    /\ UNCHANGED authVars

MenuNext ==
    \/ StartResolve
    \/ ApplyNext
    \/ FinishResolve
    \/ QueryReturn
    \/ MidnightPasses

(* The whole of menusByDay as one function of the list and the date *)
RECURSIVE applyAll(_, _)
applyAll(g, menus) ==
    IF menus = <<>> THEN g
    ELSE applyAll(applyMenu(g, Head(menus)), Tail(menus))

menusByDay(menus, t) ==
    IF Len(menus) > 0
    THEN applyAll(initialGrouped, sortByDate(filterRelevant(menus, t)))
    ELSE initialGrouped

-----------------------------------------------------------------------------
(* AuthContext.tsx *)

NULL == [null |-> TRUE]

(* E-mail addresses are sequences of characters, so that                   *)
(* String.prototype.includes can be computed on them.                      *)
AllowListedEmail ==
    <<"h","e","l","l","o","f","r","o","m","1","0","0","0","@",
      "g","m","a","i","l",".","c","o","m">>
PlainEmail == <<"b","o","b","@","h",".","i","n">>
BadmintonEmail == <<"b","a","d","m","i","n","t","o","n","@","h",".","i","n">>

Emails == {AllowListedEmail, PlainEmail, BadmintonEmail}

ADMIN_EMAILS == <<AllowListedEmail>>

(* the accounts of the backend: the id and the password of each e-mail *)
idOf(email) ==
    IF email = AllowListedEmail THEN "u1"
    ELSE IF email = PlainEmail THEN "u2" ELSE "u3"

UserIds == {idOf(e) : e \in Emails}

passwordOf(email) == "secret"

(* the credentials typed into the login form, and the e-mails typed into   *)
(* the registration form                                                   *)
LoginInputs ==
    { [email |-> AllowListedEmail, password |-> "secret"],
      [email |-> PlainEmail, password |-> "wrong"] }

RegisterEmails == {BadmintonEmail, PlainEmail}

supabaseUser(email) == [id |-> idOf(email), email |-> email]

(* Array.prototype.includes *)
arrayIncludes(arr, x) == \E i \in 1..Len(arr) : arr[i] = x

(* String.prototype.includes *)
stringIncludes(s, sub) ==
    \E i \in 1..(Len(s) - Len(sub) + 1) : SubSeq(s, i, i + Len(sub) - 1) = sub

(* ADMIN_EMAILS.includes(email) || email.includes('admin') *)
isAdminEmail(email) ==
    arrayIncludes(ADMIN_EMAILS, email)
    \/ stringIncludes(email, <<"a","d","m","i","n">>)

(* Optional text (phone_number, avatar, theme of a row; a field of         *)
(* `updates`) that is null or undefined is written "": the code only tests *)
(* such values for truthiness, and '' is falsy like them.                  *)
truthy(text) == text # ""

(* the object formatUser returns for a profile row *)
formattedUser(su, profileData) ==
    [id |-> su.id,
     email |-> su.email,
     name |-> profileData.name,
     roomNumber |-> profileData.room_number,
     regNumber |-> profileData.reg_number,
     phoneNumber |-> profileData.phone_number,
     avatar |-> profileData.avatar,
     theme |-> IF truthy(profileData.theme) THEN profileData.theme ELSE "light",
     isAdmin |-> isAdminEmail(su.email)]

(* What the profile read of formatUser can answer *)
FetchOutcomes == {"data", "error", "nodata", "throw"}

(* formatUser: null on a read error, on no row and on an exception *)
formatUser_IgnoreError(su, outcome) ==
    IF profiles[su.id] # NULL
    THEN formattedUser(su, profiles[su.id])
    ELSE NULL

formatUser(su, outcome) ==
    IF outcome = "data" /\ profiles[su.id] # NULL
    THEN formattedUser(su, profiles[su.id])
    ELSE NULL

(* formatUser's side effect on the document: applied only once a row is    *)
(* there                                                                   *)
darkAfterFormat(su, outcome) ==
    IF outcome = "data" /\ profiles[su.id] # NULL
    THEN profiles[su.id].theme = "dark"
    ELSE dark

(* the profiles row made for a new account from the signup metadata *)
rowFromMetadata(arg) ==
    [name |-> arg.name, room_number |-> arg.roomNumber,
     reg_number |-> arg.regNumber, phone_number |-> arg.phoneNumber,
     avatar |-> "", theme |-> ""]

(* Partial<User> values handed to updateProfile *)
UpdatesChoices ==
    { [name |-> "Asha"],
      [name |-> ""],
      [theme |-> "dark"],
      [theme |-> "light"],
      [isAdmin |-> TRUE] }

has(updates, f) == f \in DOMAIN updates

(* profileUpdates: the recognised fields of `updates`, under the column    *)
(* names of the profiles table                                             *)
profileUpdates(updates) ==
    LET cols ==
          (IF has(updates, "name") /\ truthy(updates.name)
             THEN {"name"} ELSE {})
          \cup (IF has(updates, "phoneNumber") /\ truthy(updates.phoneNumber)
             THEN {"phone_number"} ELSE {})
          \cup (IF has(updates, "avatar") /\ truthy(updates.avatar)
             THEN {"avatar"} ELSE {})
          \cup (IF has(updates, "theme") /\ truthy(updates.theme)
                   /\ (updates.theme = "light" \/ updates.theme = "dark")
             THEN {"theme"} ELSE {})
    IN  [c \in cols |->
            IF c = "name" THEN updates.name
            ELSE IF c = "phone_number" THEN updates.phoneNumber
            ELSE IF c = "avatar" THEN updates.avatar
            ELSE updates.theme]

(* .update(cols).eq('id', id): the row with the columns overwritten; no    *)
(* row, no change                                                          *)
updatedProfiles(id, cols) ==
    IF profiles[id] = NULL THEN profiles
    ELSE [profiles EXCEPT ![id] =
             [c \in DOMAIN profiles[id] |->
                 IF c \in DOMAIN cols THEN cols[c] ELSE profiles[id][c]]]

(* setUser(prev => prev ? { ...prev, ...updates } : null) *)
mergedUser(prev, updates) ==
    IF prev = NULL THEN NULL
    ELSE [f \in DOMAIN prev \cup DOMAIN updates |->
             IF f \in DOMAIN updates THEN updates[f] ELSE prev[f]]

(* the theme side effect at the end of updateProfile *)
darkAfterUpdate(updates) ==
    IF has(updates, "theme") /\ truthy(updates.theme)
    THEN updates.theme = "dark"
    ELSE dark

Task(op, su, arg) == [op |-> op, su |-> su, arg |-> arg]

NoArg == [none |-> TRUE]

(* What a step shows to the outside: the operation, whether it is still    *)
(* awaiting ("pending"), has returned or has thrown to its caller, the     *)
(* toast it raised, the answer of the backend it resumed on, and           *)
(* operation-specific detail (login: whether user was null at the call;    *)
(* updateProfile: the updates; a hydration: whether a profile was loaded   *)
(* when the answer came).                                                  *)
Report(op, result, toast, outcome, detail) ==
    [op |-> op, result |-> result, toast |-> toast, outcome |-> outcome,
     detail |-> detail]

removeAt(seq, i) == SubSeq(seq, 1, i - 1) \o SubSeq(seq, i + 1, Len(seq))

(* The state after construction and the first run of the effect: user     *)
(* null, loading, the subscription set up and initializeAuth awaiting      *)
(* getSession(). A session restored at page load also raises an            *)
(* auth-state-change event, whose handler is then awaiting formatUser.     *)
AuthInit ==
    /\ user = NULL
    /\ isLoading = TRUE
    /\ dark = FALSE
    /\ session \in {NULL, supabaseUser(PlainEmail)}
    /\ registered = {AllowListedEmail, PlainEmail}
    /\ profiles =
          [id \in UserIds |->
              IF id = "u1"
              THEN [name |-> "Warden", room_number |-> "A1",
                    reg_number |-> "R1", phone_number |-> "", avatar |-> "",
                    theme |-> "dark"]
              ELSE IF id = "u2"
              THEN [name |-> "Bob", room_number |-> "A2",
                    reg_number |-> "R2", phone_number |-> "", avatar |-> "",
                    theme |-> ""]
              ELSE NULL]
    /\ tasks = <<Task("getSession", NULL, NoArg)>>
               \o (IF session # NULL
                   THEN <<Task("handlerProfile", session, NoArg)>>
                   ELSE <<>>)
    /\ calls = 0
    /\ last = Report("mount", "returned", "", "", NoArg)

(* initializeAuth: getSession() answers. A session: formatUser starts its  *)
(* profile read. No session: only the finally. An exception: the catch,    *)
(* then the finally.                                                       *)
InitSessionReturn(i) ==
    /\ tasks[i].op = "getSession"
    /\ \E outcome \in {"ok", "throw"} :
          IF outcome = "ok" /\ session # NULL
          THEN /\ tasks' = [tasks EXCEPT ![i] = Task("initProfile", session, NoArg)]
               /\ UNCHANGED isLoading
          ELSE /\ tasks' = removeAt(tasks, i)
               /\ isLoading' = FALSE
    /\ last' = Report("initializeAuth", IF Len(tasks') < Len(tasks) THEN "returned"
                                        ELSE "pending", "", "", NoArg)
    /\ UNCHANGED <<user, dark, session, registered, profiles, calls>>
    /\ UNCHANGED menuVars

(* initializeAuth: formatUser answers; setUser(formattedUser); finally     *)
(* setIsLoading(false)                                                     *)
InitProfileReturn(i) ==
    /\ tasks[i].op = "initProfile"
    /\ \E outcome \in FetchOutcomes :
          /\ outcome = "data" => profiles[tasks[i].su.id] # NULL
          /\ user' = formatUser(tasks[i].su, outcome)
          /\ dark' = darkAfterFormat(tasks[i].su, outcome)
          /\ last' = Report("initializeAuth", "returned", "", outcome,
                            [loadedBefore |-> user # NULL])
    /\ isLoading' = FALSE
    /\ tasks' = removeAt(tasks, i)
    /\ UNCHANGED <<session, registered, profiles, calls>>
    /\ UNCHANGED menuVars

(* handleAuthChange with a session: formatUser answers;                    *)
(* setUser(formattedUser); finally setIsLoading(false)                     *)
HandlerProfileReturn(i) ==
    /\ tasks[i].op = "handlerProfile"
    /\ \E outcome \in FetchOutcomes :
          /\ outcome = "data" => profiles[tasks[i].su.id] # NULL
          /\ user' = formatUser(tasks[i].su, outcome)
          /\ dark' = darkAfterFormat(tasks[i].su, outcome)
          /\ last' = Report("handleAuthChange", "returned", "", outcome,
                            [loadedBefore |-> user # NULL])
    /\ isLoading' = FALSE
    /\ tasks' = removeAt(tasks, i)
    /\ UNCHANGED <<session, registered, profiles, calls>>
    /\ UNCHANGED menuVars

(* login up to its await: setIsLoading(true); signInWithPassword(...). The *)
(* task notes whether the `user` of the render that made the call was null.*)
LoginCall(email, password) ==
    /\ calls < MaxCalls
    /\ calls' = calls + 1
    /\ isLoading' = TRUE
    /\ tasks' = Append(tasks, Task("login", NULL,
                          [email |-> email, password |-> password,
                           signedOut |-> (user = NULL)]))
    /\ last' = Report("login", "pending", "", "", NoArg)
    /\ UNCHANGED <<user, dark, session, registered, profiles>>
    /\ UNCHANGED menuVars

(* whether the backend accepts the credentials *)
credentialsOk(arg) ==
    arg.email \in registered /\ arg.password = passwordOf(arg.email)

(* finally { setIsLoading(false) } of login and register *)
loadingAfterCall_NoFinally == isLoading

loadingAfterCall == FALSE

(* signInWithPassword answers. Accepted: the backend holds the session and *)
(* raises the auth-state-change event, whose handler starts formatUser;    *)
(* login toasts and returns. Otherwise (an error value, or an exception):  *)
(* toast, rethrow. Either way the finally.                                 *)
LoginReturn(i) ==
    /\ tasks[i].op = "login"
    /\ \E outcome \in {"ok", "error", "throw"} :
          /\ outcome = "ok" => credentialsOk(tasks[i].arg)
          /\ outcome = "error" => ~credentialsOk(tasks[i].arg)
          /\ IF outcome = "ok"
             THEN /\ session' = supabaseUser(tasks[i].arg.email)
                  /\ tasks' = Append(removeAt(tasks, i),
                                     Task("handlerProfile", session', NoArg))
                  /\ last' = Report("login", "returned", "Login successful", outcome,
                                  [signedOut |-> tasks[i].arg.signedOut])
             ELSE /\ UNCHANGED session
                  /\ tasks' = removeAt(tasks, i)
                  /\ last' = Report("login", "threw", "Login failed", outcome,
                                  [signedOut |-> tasks[i].arg.signedOut])
    /\ isLoading' = loadingAfterCall
    /\ UNCHANGED <<user, dark, registered, profiles, calls>>
    /\ UNCHANGED menuVars

(* register up to its await: setIsLoading(true); the admin flag of the     *)
(* e-mail; signUp(...) with the metadata                                   *)
RegisterCall(email) ==
    /\ calls < MaxCalls
    /\ calls' = calls + 1
    /\ isLoading' = TRUE
    /\ tasks' = Append(tasks,
          Task("register", NULL,
               [name |-> "Nia", email |-> email, password |-> "secret",
                roomNumber |-> "A3", regNumber |-> "R3", phoneNumber |-> "",
                isAdmin |-> isAdminEmail(email)]))
    /\ last' = Report("register", "pending", "", "", NoArg)
    /\ UNCHANGED <<user, dark, session, registered, profiles>>
    /\ UNCHANGED menuVars

(* signUp answers. Accepted (a new e-mail): the account and its profile    *)
(* row exist, the backend holds the session and raises the event; register *)
(* toasts and returns. Otherwise toast and rethrow. Either way the finally.*)
RegisterReturn(i) ==
    /\ tasks[i].op = "register"
    /\ \E outcome \in {"ok", "error", "throw"} :
          /\ outcome = "ok" => tasks[i].arg.email \notin registered
          /\ outcome = "error" => tasks[i].arg.email \in registered
          /\ IF outcome = "ok"
             THEN /\ registered' = registered \cup {tasks[i].arg.email}
                  /\ profiles' = [profiles EXCEPT ![idOf(tasks[i].arg.email)] =
                                     rowFromMetadata(tasks[i].arg)]
                  /\ session' = supabaseUser(tasks[i].arg.email)
                  /\ tasks' = Append(removeAt(tasks, i),
                                     Task("handlerProfile", session', NoArg))
                  /\ last' = Report("register", "returned",
                        IF tasks[i].arg.isAdmin
                        THEN "Registration successful, with admin privileges"
                        ELSE "Registration successful",
                        outcome, NoArg)
             ELSE /\ UNCHANGED <<registered, profiles, session>>
                  /\ tasks' = removeAt(tasks, i)
                  /\ last' = Report("register", "threw", "Registration failed",
                                  outcome, NoArg)
    /\ isLoading' = loadingAfterCall
    /\ UNCHANGED <<user, dark, calls>>
    /\ UNCHANGED menuVars

(* logout up to its await: signOut() *)
LogoutCall ==
    /\ calls < MaxCalls
    /\ calls' = calls + 1
    /\ tasks' = Append(tasks, Task("logout", NULL, NoArg))
    /\ last' = Report("logout", "pending", "", "", NoArg)
    /\ UNCHANGED <<user, isLoading, dark, session, registered, profiles>>
    /\ UNCHANGED menuVars

(* What logout does once signOut() has resolved, whatever it resolved to:  *)
(* the value of the await is not looked at.                                *)
userAfterSignOut(outcome) == NULL

darkAfterSignOut(outcome) == FALSE

(* signOut answers. Done: the session is gone and the event's handler runs *)
(* its no-session branch (setUser(null), setIsLoading(false)); then        *)
(* logout's setUser(null) and classList.remove('dark'). An error VALUE     *)
(* ({ error }): the session stays, and logout goes on the same way. An     *)
(* exception: the catch, a toast.                                          *)
LogoutReturn(i) ==
    /\ tasks[i].op = "logout"
    /\ \E outcome \in {"ok", "error", "throw"} :
          /\ session' = IF outcome = "ok" THEN NULL ELSE session
          /\ isLoading' = IF outcome = "ok" THEN FALSE ELSE isLoading
          /\ IF outcome = "throw"
             THEN /\ UNCHANGED <<user, dark>>
                  /\ last' = Report("logout", "returned", "Logout failed", outcome,
                                  NoArg)
             ELSE /\ user' = userAfterSignOut(outcome)
                  /\ dark' = darkAfterSignOut(outcome)
                  /\ last' = Report("logout", "returned", "", outcome, NoArg)
    /\ tasks' = removeAt(tasks, i)
    /\ UNCHANGED <<registered, profiles, calls>>
    /\ UNCHANGED menuVars

(* if (!user) return; of updateProfile and toggleTheme: nothing is sent,   *)
(* the awaits in flight are what they were                                 *)
awaitsAfterEarlyReturn_Sends ==
    Append(tasks, Task("updateProfile", NULL, [id |-> "", updates |-> NoArg]))

awaitsAfterEarlyReturn == tasks

(* updateProfile up to its await: nothing without a user; else the update  *)
(* of the row of user.id is sent                                           *)
UpdateProfileCall(updates) ==
    /\ calls < MaxCalls
    /\ calls' = calls + 1
    /\ IF user = NULL
       THEN /\ tasks' = awaitsAfterEarlyReturn
            /\ last' = Report("updateProfile", "returned", "", "", NoArg)
       ELSE /\ tasks' = Append(tasks, Task("updateProfile", NULL,
                                  [id |-> user.id, updates |-> updates]))
            /\ last' = Report("updateProfile", "pending", "", "", NoArg)
    /\ UNCHANGED <<user, isLoading, dark, session, registered, profiles>>
    /\ UNCHANGED menuVars

(* the update answers. Done: the row is written, `updates` is merged into  *)
(* the user, the theme is applied, a toast. An error value or an           *)
(* exception: the catch, a toast.                                          *)
UpdateProfileReturn(i) ==
    /\ tasks[i].op = "updateProfile"
    /\ \E outcome \in {"ok", "error", "throw"} :
          IF outcome = "ok"
          THEN /\ profiles' = updatedProfiles(tasks[i].arg.id,
                                  profileUpdates(tasks[i].arg.updates))
               /\ user' = mergedUser(user, tasks[i].arg.updates)
               /\ dark' = darkAfterUpdate(tasks[i].arg.updates)
               /\ last' = Report("updateProfile", "returned", "Profile updated",
                                 outcome, tasks[i].arg)
          ELSE /\ UNCHANGED <<profiles, user, dark>>
               /\ last' = Report("updateProfile", "returned",
                                 "Profile update failed", outcome, tasks[i].arg)
    /\ tasks' = removeAt(tasks, i)
    /\ UNCHANGED <<isLoading, session, registered, calls>>
    /\ UNCHANGED menuVars

(* const newTheme = user.theme === 'light' ? 'dark' : 'light' *)
newThemeOf(u) == IF u.theme = "light" THEN "dark" ELSE "light"

(* toggleTheme up to its await: nothing without a user; else newTheme is   *)
(* computed from the user of this render and the update is sent            *)
ToggleThemeCall ==
    /\ calls < MaxCalls
    /\ calls' = calls + 1
    /\ IF user = NULL
       THEN /\ tasks' = awaitsAfterEarlyReturn
            /\ last' = Report("toggleTheme", "returned", "", "", NoArg)
       ELSE /\ tasks' = Append(tasks, Task("toggleTheme", NULL,
                                  [id |-> user.id, newTheme |-> newThemeOf(user)]))
            /\ last' = Report("toggleTheme", "pending", "", "", NoArg)
    /\ UNCHANGED <<user, isLoading, dark, session, registered, profiles>>
    /\ UNCHANGED menuVars

(* the update answers. Done: the row is written, the theme is merged into  *)
(* the user and applied to the document. Otherwise the catch, a toast.     *)
ToggleThemeReturn(i) ==
    /\ tasks[i].op = "toggleTheme"
    /\ \E outcome \in {"ok", "error", "throw"} :
          IF outcome = "ok"
          THEN /\ profiles' = updatedProfiles(tasks[i].arg.id,
                                  [theme |-> tasks[i].arg.newTheme])
               /\ user' = mergedUser(user, [theme |-> tasks[i].arg.newTheme])
               /\ dark' = (tasks[i].arg.newTheme = "dark")
               /\ last' = Report("toggleTheme", "returned", "", outcome, NoArg)
          ELSE /\ UNCHANGED <<profiles, user, dark>>
               /\ last' = Report("toggleTheme", "returned",
                                 "Theme toggle failed", outcome, NoArg)
    /\ tasks' = removeAt(tasks, i)
    /\ UNCHANGED <<isLoading, session, registered, calls>>
    /\ UNCHANGED menuVars

AuthNext ==
    \/ \E i \in 1..Len(tasks) : InitSessionReturn(i)
    \/ \E i \in 1..Len(tasks) : InitProfileReturn(i)
    \/ \E i \in 1..Len(tasks) : HandlerProfileReturn(i)
    \/ \E cred \in LoginInputs : LoginCall(cred.email, cred.password)
    \/ \E i \in 1..Len(tasks) : LoginReturn(i)
    \/ \E email \in RegisterEmails : RegisterCall(email)
    \/ \E i \in 1..Len(tasks) : RegisterReturn(i)
    \/ LogoutCall
    \/ \E i \in 1..Len(tasks) : LogoutReturn(i)
    \/ \E updates \in UpdatesChoices : UpdateProfileCall(updates)
    \/ \E i \in 1..Len(tasks) : UpdateProfileReturn(i)
    \/ ToggleThemeCall
    \/ \E i \in 1..Len(tasks) : ToggleThemeReturn(i)

-----------------------------------------------------------------------------
(* Specifications. The two components share no state; each is checked with *)
(* the other at rest.                                                      *)

vars == <<menuVars, authVars>>

MenuAtRest ==
    /\ now = FirstToday
    /\ today = FirstToday
    /\ tzBehindUTC = FALSE
    /\ queryStatus = "data"
    /\ scheduledMenus = <<>>
    /\ mpc = "done"
    /\ grouped = initialGrouped
    /\ prevGrouped = initialGrouped
    /\ relevantMenus = <<>>
    /\ cursor = 0

AuthAtRest ==
    /\ user = NULL
    /\ isLoading = FALSE
    /\ dark = FALSE
    /\ session = NULL
    /\ registered = {}
    /\ profiles = [id \in UserIds |-> NULL]
    /\ tasks = <<>>
    /\ calls = MaxCalls
    /\ last = Report("mount", "returned", "", "", NoArg)

MenuSpecInit == MenuInit /\ AuthAtRest

MenuSpec == MenuSpecInit /\ [][MenuNext]_vars

AuthSpecInit == AuthInit /\ MenuAtRest

AuthSpec == AuthSpecInit /\ [][AuthNext]_vars

(* The operations that read or write isLoading: the session check, the    *)
(* auth-state-change handler, login, register, and logout for the event    *)
(* without a session. updateProfile and toggleTheme touch neither          *)
(* isLoading nor the session.                                              *)
LoadingReturns ==
    \E i \in 1..Len(tasks) :
        \/ InitSessionReturn(i)
        \/ InitProfileReturn(i)
        \/ HandlerProfileReturn(i)
        \/ LoginReturn(i)
        \/ RegisterReturn(i)
        \/ LogoutReturn(i)

LoadingNext ==
    \/ \E cred \in LoginInputs : LoginCall(cred.email, cred.password)
    \/ \E email \in RegisterEmails : RegisterCall(email)
    \/ LogoutCall
    \/ \E i \in 1..Len(tasks) : InitSessionReturn(i)
    \/ \E i \in 1..Len(tasks) : InitProfileReturn(i)
    \/ \E i \in 1..Len(tasks) : HandlerProfileReturn(i)
    \/ \E i \in 1..Len(tasks) : LoginReturn(i)
    \/ \E i \in 1..Len(tasks) : RegisterReturn(i)
    \/ \E i \in 1..Len(tasks) : LogoutReturn(i)

(* Every await in flight is answered: by data, by an error value or by an  *)
(* exception. With that assumed of the backend, some pending continuation  *)
(* runs whenever one is pending.                                           *)
LoadingSpec == AuthSpecInit /\ [][LoadingNext]_vars /\ WF_vars(LoadingReturns)

Init == MenuInit /\ AuthInit

Next == MenuNext \/ AuthNext

Spec == Init /\ [][Next]_vars

-----------------------------------------------------------------------------
(* Properties of the menu resolver *)

without(menus, i) == SubSeq(menus, 1, i - 1) \o SubSeq(menus, i + 1, Len(menus))

hasSlot(g, d, k, text) == k \in DOMAIN g[d] /\ g[d][k] = text

(* The weekday of a calendar date itself, as a day-name *)
calendarDayName(date) == days[((date + EpochWeekday) % 7) + 1]

(* a record the forEach writes: dated today or later, with usable items *)
isEligible(menu) == isRelevant(menu, today) /\ hasUsableItems(menu)

(* C2: a record dated strictly before today never alters the resolved     *)
(* menu: the result equals the result for the list with the record removed *)
C2_PastRecordIgnored ==
    mpc = "done" =>
        \A i \in 1..Len(scheduledMenus) :
            scheduledMenus[i].date < today =>
                grouped = menusByDay(without(scheduledMenus, i), today)

(* a past record with usable content sits in a resolved list beside a      *)
(* record that was applied                                                 *)
C2_Witness ==
    /\ mpc = "done"
    /\ \E i \in 1..Len(scheduledMenus) :
          /\ scheduledMenus[i].date < today
          /\ hasUsableItems(scheduledMenus[i])
    /\ grouped # initialGrouped

C5_FrameOnRecordsDay ==
    (mpc = "apply" /\ cursor > 0 /\ hasUsableItems(relevantMenus[cursor])) =>
        LET menu == relevantMenus[cursor]
            day == calendarDayName(menu.date)
        IN  /\ hasSlot(grouped, day, menu.meal_type, itemsString(menu))
            /\ \A d \in DayNames :
                  \A k \in DOMAIN prevGrouped[d] :
                      (d # day \/ k # menu.meal_type)
                      => hasSlot(grouped, d, k, prevGrouped[d][k])

(* C7: at every step of the merge each of the seven day-names has all four *)
(* meal slots, each a non-empty string, and a step removes no slot         *)
C7_Coverage ==
    /\ DOMAIN grouped = DayNames
    /\ \A d \in DayNames :
          /\ \A k \in MealSlots : k \in DOMAIN grouped[d] /\ grouped[d][k] # ""
          /\ DOMAIN prevGrouped[d] \subseteq DOMAIN grouped[d]

(* a forEach step has just overwritten a slot *)
C7_Witness ==
    /\ mpc = "apply"
    /\ cursor > 0
    /\ grouped # prevGrouped

(* C11: in a resolved menu every day-name on which no record dated today   *)
(* or later falls has its four slots at the fallback's values, and with an *)
(* empty record list the whole result is the fallback schedule             *)
C11_FallbackForUnmatchedDays ==
    mpc = "done" =>
        /\ \A d \in DayNames :
              (~ \E i \in 1..Len(scheduledMenus) :
                    /\ isRelevant(scheduledMenus[i], today)
                    /\ calendarDayName(scheduledMenus[i].date) = d)
              => \A k \in MealSlots :
                    hasSlot(grouped, d, k, fallbackWeeklyMenu[d][k])
        /\ scheduledMenus = <<>> => grouped = fallbackWeeklyMenu

(* the read of the records ended in an error value or a rejection *)
fetchFailed == queryStatus \in {"error", "throw"}

(* C14: once the fetch of the records has failed, the component holds an   *)
(* empty record list (a list, never the error), the resolver has no        *)
(* record to apply, and the resolved menu is the fallback schedule for all *)
(* seven days                                                              *)
C14_FetchFailureFallsBack ==
    fetchFailed =>
        /\ scheduledMenus = <<>>
        /\ relevantMenus = <<>>
        /\ grouped = fallbackWeeklyMenu
        /\ DOMAIN grouped = DayNames

(* the fetch ended in an error value and the menu has been resolved again *)
C14_Witness ==
    /\ queryStatus = "error"
    /\ mpc = "done"
    /\ grouped = fallbackWeeklyMenu

(* the record the latest forEach step looked at *)
stepped == mpc = "apply" /\ cursor > 0

(* C17: a forEach step on a record with a flat list writes all its entries *)
(* joined with ", " (<<Tea, Toast>> gives "Tea, Toast"); on a record with  *)
(* a keyed payload it writes only the entries under the record's own meal  *)
(* type, joined; with no payload, no meal type, the own key absent or an   *)
(* empty list the step changes nothing                                     *)
C17_SlotText ==
    stepped =>
        LET menu == relevantMenus[cursor]
            d == dayNameOf(menu)
            key == menu.meal_type
            flat == /\ menu.items.kind = "array"
                    /\ key # ""
                    /\ menu.items.arr # <<>>
            keyed == /\ menu.items.kind = "object"
                     /\ key # ""
                     /\ key \in DOMAIN menu.items.map
                     /\ menu.items.map[key] # <<>>
        IN  /\ flat => hasSlot(grouped, d, key, join(menu.items.arr))
            /\ (flat /\ menu.items.arr = <<"Tea", "Toast">>)
                  => hasSlot(grouped, d, key, "Tea, Toast")
            /\ keyed => hasSlot(grouped, d, key, join(menu.items.map[key]))
            /\ (keyed /\ menu.items.map[key] = <<"Rice", "Dal">>)
                  => hasSlot(grouped, d, key, "Rice, Dal")
            /\ (~flat /\ ~keyed) => grouped = prevGrouped

(* a step has written "Rice, Dal" from a keyed payload over another        *)
(* record's text                                                           *)
C17_Witness ==
    /\ stepped
    /\ relevantMenus[cursor].items.kind = "object"
    /\ hasSlot(grouped, dayNameOf(relevantMenus[cursor]), "lunch", "Rice, Dal")
    /\ hasSlot(prevGrouped, dayNameOf(relevantMenus[cursor]), "lunch",
               "Tea, Toast")

(* B is dated a whole number of weeks, at least one, after A *)
weeksAfter(A, B) == B.date > A.date /\ (B.date - A.date) % 7 = 0

(* record j has a meal type and usable items, is dated today or later, and *)
(* no other such record for its bucket and meal type is applied after it   *)
lastForItsSlot(j) ==
    LET B == scheduledMenus[j]
    IN  /\ B.date >= today
        /\ hasUsableItems(B)
        /\ \A i \in 1..Len(scheduledMenus) \ {j} :
              LET A == scheduledMenus[i]
              IN  (/\ A.date >= today
                   /\ hasUsableItems(A)
                   /\ A.meal_type = B.meal_type
                   /\ dayNameOf(A) = dayNameOf(B))
                  => (A.date < B.date \/ (A.date = B.date /\ i < j))

C19_FunctionOfRecordList ==
    mpc = "done" => grouped = menusByDay(scheduledMenus, now)

-----------------------------------------------------------------------------
(* Properties of the session/profile binder *)

(* no handler, hydration, session check or context operation in flight *)
quiescent == tasks = <<>>

inFlight(ops) == \E i \in 1..Len(tasks) : tasks[i].op \in ops

failed(report) == report.outcome \in {"error", "throw"}

(* C1: in every quiescent state the local user is non-null only if the     *)
(* backend has a session (and is null whenever it has none)                *)
C1_SessionConsistency ==
    quiescent => (user # NULL => session # NULL)

(* C4 as stated: a login started while user is null whose verification     *)
(* fails completes with user null, isLoading false and the error rethrown  *)
C4_Original ==
    (/\ last.op = "login"
     /\ failed(last)
     /\ last.detail.signedOut)
    => (user = NULL /\ ~isLoading /\ last.result = "threw")

(* C4, amended: no step of login writes user, and the step that completes  *)
(* a login whose verification failed sets isLoading false and rethrows     *)
C4_FailedLoginKeepsUser ==
    [][ last'.op = "login" =>
          /\ user' = user
          /\ failed(last') => (~isLoading' /\ last'.result = "threw") ]_vars

(* a login started with user null has just failed, and user is null *)
C4_Witness ==
    /\ last.op = "login"
    /\ failed(last)
    /\ last.detail.signedOut
    /\ last.result = "threw"
    /\ user = NULL
    /\ ~isLoading

(* C6: when the remote call of logout, updateProfile or toggleTheme fails, *)
(* by an error value or by an exception, nothing is rethrown and the user  *)
(* and the applied theme are what they were                                *)
C6_FailedWriteKeepsState ==
    [][ (last'.op \in {"logout", "updateProfile", "toggleTheme"} /\ failed(last'))
        => (last'.result = "returned" /\ user' = user /\ dark' = dark) ]_vars

(* the User field a profiles column is shown in, and back *)
fieldOf(column) ==
    IF column = "phone_number" THEN "phoneNumber" ELSE column

columnOf(userField) ==
    IF userField = "phoneNumber" THEN "phone_number" ELSE userField

(* C8: after a successful updateProfile with a profile loaded, the local   *)
(* fields that changed are exactly the recognised fields written to the    *)
(* profiles row, each with the written value; no other field changes       *)
C8_LocalMatchesRemoteWrite ==
    [][ (last'.op = "updateProfile" /\ last'.outcome = "ok" /\ user # NULL)
        => LET written == profileUpdates(last'.detail.updates)
           IN  /\ user' # NULL
               /\ DOMAIN user' = DOMAIN user
               /\ \A f \in DOMAIN user :
                     user'[f] # user[f] =>
                        /\ columnOf(f) \in DOMAIN written
                        /\ written[columnOf(f)] = user'[f]
               /\ \A c \in DOMAIN written : user'[fieldOf(c)] = written[c] ]_vars

(* C9: while a login or register call awaits its remote request, isLoading *)
(* is true in every intermediate state                                     *)
C9_LoadingBrackets ==
    inFlight({"login", "register"}) => isLoading

(* C10: a loaded profile's admin flag is the flag its e-mail derives *)
C10_AdminFromEmail ==
    user # NULL => (user.isAdmin <=> isAdminEmail(user.email))

(* C12: a toggleTheme call that completes successfully with a profile      *)
(* loaded changes the local theme from "light" to "dark" or back, writes   *)
(* to the profiles row the value it sets locally, and writes no other      *)
(* value; overlapping calls included                                       *)
C12_ToggleFlips ==
    [][ (last'.op = "toggleTheme" /\ last'.outcome = "ok" /\ user # NULL)
        => /\ user' # NULL
           /\ user'.theme \in {"light", "dark"}
           /\ user'.theme # user.theme
           /\ profiles'[user.id] # NULL
                 => profiles'[user.id].theme = user'.theme ]_vars

(* C13: updateProfile and toggleTheme invoked while user is null send no   *)
(* remote call, return at once, and leave user, isLoading, the applied     *)
(* theme and the backend as they were                                      *)
C13_NoOpWithoutProfile ==
    [][ (/\ calls' = calls + 1
         /\ last'.op \in {"updateProfile", "toggleTheme"}
         /\ user = NULL)
        => /\ tasks' = tasks
           /\ last'.result = "returned"
           /\ last'.toast = ""
           /\ user' = user
           /\ isLoading' = isLoading
           /\ dark' = dark
           /\ profiles' = profiles
           /\ session' = session ]_vars

(* updateProfile has just returned early: no profile is loaded, although   *)
(* the backend holds a session and other awaits are in flight              *)
C13_Witness ==
    /\ last.op = "updateProfile"
    /\ last.result = "returned"
    /\ last.outcome = ""
    /\ user = NULL
    /\ session # NULL
    /\ tasks # <<>>

(* C15: every step that takes user from null to a profile is a step of the *)
(* auth-state-change handler; login, register, the initial session check,  *)
(* updateProfile and toggleTheme never do                                  *)
C15_SinglePathIn ==
    [][ (user = NULL /\ user' # NULL) => last'.op = "handleAuthChange" ]_vars

(* the profile read of a hydration gave an error, no row, or threw *)
hydrationFailed(report) ==
    /\ report.op \in {"handleAuthChange", "initializeAuth"}
    /\ report.outcome \in {"error", "nodata", "throw"}

(* C16: when the profile read of a hydration (by the auth-state-change     *)
(* handler or by the initial session check) fails, returns no row or       *)
(* throws, the step sets user to null, whatever it was, sets isLoading     *)
(* false, and returns without an error                                     *)
C16_FailedHydrationGivesNull ==
    [][ hydrationFailed(last')
        => (user' = NULL /\ ~isLoading' /\ last'.result = "returned"
            /\ last'.toast = "") ]_vars

(* the handler's profile read has just failed while a profile was loaded,  *)
(* and user is null now                                                    *)
C16_Witness ==
    /\ hydrationFailed(last)
    /\ last.op = "handleAuthChange"
    /\ last.detail.loadedBefore
    /\ user = NULL
    /\ session # NULL
    /\ ~isLoading

(* C20: in every quiescent state the dark theme is applied to the document *)
(* exactly when a profile is loaded and its theme is "dark"                *)
C20_ThemeTracksProfile ==
    quiescent => (dark <=> (user # NULL /\ user.theme = "dark"))

(* C21: with every remote call answered, isLoading, true at mount, becomes *)
(* false and, once the calls have stopped, stays false; and in every state *)
(* in which all calls, handlers and the session check have completed,      *)
(* isLoading is false                                                      *)
C21_LoadingEnds ==
    /\ [](quiescent => ~isLoading)
    /\ <>(~isLoading)
    /\ <>[](quiescent /\ ~isLoading)

(* everything has completed after a login that failed and a session check  *)
(* whose hydration failed, and isLoading is false                          *)
C21_Witness ==
    /\ quiescent
    /\ ~isLoading
    /\ calls > 0
    /\ user = NULL
    /\ session # NULL
    /\ last.op \in {"login", "register"}
    /\ failed(last)

=============================================================================
